---- MODULE Spec2Model ----
(***************************************************************************)
(* Client-side interaction layer of the portfolio site (src/index.js).     *)
(*                                                                         *)
(* Strings that the script inspects character by character (field values,  *)
(* hrefs) are sequences of one-character strings.  Every event handler of  *)
(* the script is one action; the variable lastEvent names the handler that *)
(* ran last.                                                               *)
(***************************************************************************)
EXTENDS Integers, Sequences, FiniteSets, TLC

\* ------------------------------------------------------------------ bounds
MaxEmailLen == 5
MaxSubmissions == 3
MaxPendingTimers == 1
MaxOverlap == 2
MaxBurst == 3
MaxRevealEls == 2
MaxBars == 2
MaxEntries == 4

\* ------------------------------------------------------------- F. constants
UNSET_FORM_ID == "YOUR_FORM_ID"
FormIds == {UNSET_FORM_ID, "xabcdefg"}
FieldNames == {"name", "email", "subject", "message"}
FieldOrder == <<"name", "email", "subject", "message">>
SendLabel == "Send message"
SendingLabel == "Sending..."
MsgInvalid == "Please fill in all fields correctly."
MsgMailto == "Opening your email client..."
MsgSent == "Message sent - I'll reply soon!"
MsgGeneric == "Something went wrong. Please try again."
MsgNetwork == "Network error. Please email hello@mdkportfolio.dev directly."
ServerErrorText == "Form not found"

VARIABLES
  formspreeFormId,  \* FORMSPREE_FORM_ID
  fields,           \* .value of the four inputs, by field name
  statusText,       \* statusEl.textContent
  statusClass,      \* statusEl.className
  submitDisabled,   \* submitButton.disabled
  submitLabel,      \* text of .form-submit-btn__label
  fieldError,       \* the fields that carry the class field-error
  errorTimers,      \* per field, the time left on each pending removal timeout
  inflight,         \* fetch() promises not yet settled, with their JSON body
  fetchCalls,       \* number of fetch() calls issued so far
  mailtoClicks,     \* number of mailto anchors clicked so far
  mailtoHref,       \* href of the last mailto anchor built
  mailtoAnchors,    \* anchors the submit handler left attached to document.body
  emailValue,       \* the submit handler's local emailValue, while lastEvent
                    \* is "submit"
  formIsValid,      \* the submit handler's local formIsValid, likewise
  lastReply,        \* the reply the last event delivered, if it was one
  sectionEls,       \* offsetTop of each section element the document holds
  pageYOffset,      \* window.pageYOffset
  innerHeight,      \* window.innerHeight
  navLinks,         \* allNavLinks: the data-section of each [data-section] link
  linkActive,       \* per link, whether it carries the class is-active
  linkAriaCurrent,  \* per link, whether aria-current="page" is set
  rafScheduled,     \* rafScheduled
  rafQueue,         \* requestAnimationFrame callbacks queued for the next frame
  scrollBurst,      \* scroll events delivered since the last frame callback ran
  spyPhase,         \* "boot" before line 138 ran, then "ready", then "loaded"
  activeSectionId,  \* argument of the last highlightActiveSection call
  hamburgerButton,  \* TRUE iff #hamburger-btn exists
  mobileMenuPanel,  \* TRUE iff #mobile-menu-panel exists
  panelOpen,        \* the panel carries the class is-open
  panelAriaHidden,  \* aria-hidden of the panel
  ariaExpanded,     \* aria-expanded of the hamburger button
  ariaLabel,        \* aria-label of the hamburger button
  focus,            \* the element that has keyboard focus
  navHeight,        \* offsetHeight of .site-nav, 0 when there is none
  defaultPrevented, \* the last click event had preventDefault() called
  scrollToCalls,    \* window.scrollTo destinations issued by the last click
  clickTarget,      \* event.target of the last click, as its chain of ancestors
  ioReady,          \* <html> carries js-io-ready
  inView,           \* per reveal element: it intersects the observer's root
  isRevealed,       \* per reveal element: it carries is-revealed
  revealObserved,   \* the elements revealObserver watches
  revealQueue,      \* entries revealObserver has not delivered yet
  skillsSection,    \* #skills-section exists
  skillsInView,     \* the skills section intersects the observer's root
  bars,             \* data-fill-width of each .skill-item__fill, in document order
  barWidth,         \* style.width of each bar
  barTimers,        \* pending fill timeouts, in the order they were set
  hasAnimated,      \* the flag of initSkillBarAnimations
  skillsObserved,   \* skillsObserver watches the section
  skillsQueue,      \* entries skillsObserver has not delivered yet
  fillRuns,         \* calls of fillBars so far
  fillClock,        \* time elapsed since fillBars was called, while it fills
  animPhase,        \* which of the two animation units have run
  lastEvent         \* the handler that ran last

formVars == <<formspreeFormId, fields, statusText, statusClass, submitDisabled,
              submitLabel, fieldError, errorTimers, inflight, fetchCalls,
              mailtoClicks, mailtoHref, mailtoAnchors, emailValue, formIsValid,
              lastReply>>

spyVars == <<sectionEls, pageYOffset, innerHeight, navLinks, linkActive,
             linkAriaCurrent, rafScheduled, rafQueue, scrollBurst, spyPhase,
             activeSectionId>>

menuVars == <<hamburgerButton, mobileMenuPanel, panelOpen, panelAriaHidden,
              ariaExpanded, ariaLabel, focus, navHeight, defaultPrevented,
              scrollToCalls, clickTarget>>

animVars == <<ioReady, inView, isRevealed, revealObserved, revealQueue,
              skillsSection, skillsInView, bars, barWidth, barTimers, hasAnimated,
              skillsObserved, skillsQueue, fillRuns, fillClock, animPhase>>

vars == <<formVars, spyVars, menuVars, animVars, lastEvent>>

\* ------------------------------------------------------------ string helpers
IsSpace(c) == c \in {" ", "\t", "\n"}

RECURSIVE TrimStart(_)
TrimStart(s) ==
  IF s # <<>> /\ IsSpace(Head(s)) THEN TrimStart(Tail(s)) ELSE s

RECURSIVE TrimEnd(_)
TrimEnd(s) ==
  IF s # <<>> /\ IsSpace(s[Len(s)]) THEN TrimEnd(SubSeq(s, 1, Len(s) - 1)) ELSE s

\* String.prototype.trim
Trim(s) == TrimEnd(TrimStart(s))

\* Variant: the dot and what follows it are not required.
EmailPattern_NoDot ==
  << [cls |-> "notSpaceAt", plus |-> TRUE],
     [cls |-> "at", plus |-> FALSE],
     [cls |-> "notSpaceAt", plus |-> TRUE] >>

\* The pattern /^[^\s@]+@[^\s@]+\.[^\s@]+$/ as a list of atoms.
EmailPattern ==
  << [cls |-> "notSpaceAt", plus |-> TRUE],
     [cls |-> "at", plus |-> FALSE],
     [cls |-> "notSpaceAt", plus |-> TRUE],
     [cls |-> "dot", plus |-> FALSE],
     [cls |-> "notSpaceAt", plus |-> TRUE] >>

InClass(cls, c) ==
  CASE cls = "notSpaceAt" -> ~IsSpace(c) /\ c # "@"
    [] cls = "at" -> c = "@"
    [] cls = "dot" -> c = "."

\* Backtracking match of atoms p.. of pat against s from position i to the
\* end of s (the pattern is anchored at both ends).
RECURSIVE MatchFrom(_, _, _, _)
MatchFrom(pat, p, s, i) ==
  IF p > Len(pat) THEN i = Len(s) + 1
  ELSE IF i > Len(s) THEN FALSE
  ELSE IF ~InClass(pat[p].cls, s[i]) THEN FALSE
  ELSE IF pat[p].plus
       THEN MatchFrom(pat, p, s, i + 1) \/ MatchFrom(pat, p + 1, s, i + 1)
       ELSE MatchFrom(pat, p + 1, s, i + 1)

isValidEmailAddress(email) == MatchFrom(EmailPattern, 1, email, 1)

\* encodeURIComponent on the characters the model uses
EncodeChar(c) ==
  CASE c = " " -> "%20"
    [] c = "\t" -> "%09"
    [] c = "\n" -> "%0A"
    [] c = "@" -> "%40"
    [] c = "<" -> "%3C"
    [] c = ">" -> "%3E"
    [] c = ":" -> "%3A"
    [] OTHER -> c

encodeURIComponent(s) == [i \in 1..Len(s) |-> EncodeChar(s[i])]

\* [message, "", "---", "From: name <email>"].join("\n")
MailtoBody(nameValue, emailVal, messageValue) ==
  messageValue \o <<"\n", "\n", "-", "-", "-", "\n">>
    \o <<"F", "r", "o", "m", ":", " ">> \o nameValue \o <<" ", "<">>
    \o emailVal \o <<">">>

MailtoHrefOf(nameValue, emailVal, subjectValue, messageValue) ==
  [to |-> "hello@mdkportfolio.dev",
   subject |-> encodeURIComponent(subjectValue),
   body |-> encodeURIComponent(MailtoBody(nameValue, emailVal, messageValue))]

StatusClassOf(type) ==
  "form-status-message" \o (IF type # "" THEN " form-status-message--" \o type ELSE "")

\* Variant: the subject is not tested.
InvalidFields_NoSubject(nameValue, emailVal, subjectValue, messageValue) ==
  (IF nameValue = <<>> THEN {"name"} ELSE {})
    \cup (IF ~isValidEmailAddress(emailVal) THEN {"email"} ELSE {})
    \cup (IF messageValue = <<>> THEN {"message"} ELSE {})

\* The fields the validation block flags (each test is independent).
InvalidFields(nameValue, emailVal, subjectValue, messageValue) ==
  (IF nameValue = <<>> THEN {"name"} ELSE {})
    \cup (IF ~isValidEmailAddress(emailVal) THEN {"email"} ELSE {})
    \cup (IF subjectValue = <<>> THEN {"subject"} ELSE {})
    \cup (IF messageValue = <<>> THEN {"message"} ELSE {})

\* ------------------------------------------------------------ input domains
Chars == {"a", "@", ".", " "}

RECURSIVE StringsUpTo(_)
StringsUpTo(n) ==
  IF n = 0 THEN {<<>>}
  ELSE LET shorter == StringsUpTo(n - 1)
       IN shorter \cup {Append(s, c) : s \in {t \in shorter : Len(t) = n - 1}, c \in Chars}

ExampleEmails ==
  { <<"a", "@", "b", ".", "c">>, <<"a", "b", "c">>, <<"a", "@", "b">>,
    <<"@", "b", ".", "c">> }

EmailInputs == StringsUpTo(MaxEmailLen) \cup ExampleEmails

\* What the user may type into each field of the form.
FieldInputs(f) ==
  CASE f = "name" -> { <<>>, <<" ">>, <<" ", "a", " ">> }
    [] f = "email" -> { <<>>, <<"a", "@", "b">>, <<" ", "a", "@", "b", ".", "c">> }
    [] f = "subject" -> { <<>>, <<"a">> }
    [] f = "message" -> { <<>>, <<"\n">>, <<"a">> }

EmptyForm == [f \in FieldNames |-> <<>>]

\* Every combination of the field inputs
AllForms ==
  {[f \in FieldNames |-> CASE f = "name" -> n [] f = "email" -> e
                            [] f = "subject" -> sj [] f = "message" -> m] :
     n \in FieldInputs("name"), e \in FieldInputs("email"),
     sj \in FieldInputs("subject"), m \in FieldInputs("message")}

ValidForm ==
  [f \in FieldNames |-> CASE f = "name" -> <<" ", "a", " ">>
                          [] f = "email" -> <<" ", "a", "@", "b", ".", "c">>
                          [] f = "subject" -> <<"a">>
                          [] f = "message" -> <<"a">>]

\* The forms the user alternates between while requests are in flight
SampleForms ==
  { EmptyForm, ValidForm,
    [ValidForm EXCEPT !["name"] = <<" ">>],
    [ValidForm EXCEPT !["email"] = <<"a", "@", "b">>],
    [ValidForm EXCEPT !["subject"] = <<>>, !["message"] = <<"\n">>] }

\* Forms that fail validation in one field, or in all of them.
TimerForms ==
  { EmptyForm,
    [ValidForm EXCEPT !["name"] = <<" ">>],
    [ValidForm EXCEPT !["email"] = <<"a", "@", "b">>] }

\* Valid forms, one with a subject that needs encoding.
MailtoForms ==
  { ValidForm, [ValidForm EXCEPT !["subject"] = <<"a", " ", "a">>] }

\* Replies the relay (or the transport) can give to one request.
Replies ==
  { [kind |-> "response", ok |-> TRUE, body |-> "json"],
    [kind |-> "response", ok |-> TRUE, body |-> "unparseable"],
    [kind |-> "response", ok |-> FALSE, body |-> "json"],
    [kind |-> "response", ok |-> FALSE, body |-> "jsonWithError"],
    [kind |-> "response", ok |-> FALSE, body |-> "jsonNull"],
    [kind |-> "response", ok |-> FALSE, body |-> "unparseable"],
    [kind |-> "transportFailure", ok |-> FALSE, body |-> "none"] }

NoReply == [kind |-> "none", ok |-> FALSE, body |-> "none"]

\* --------------------------------------------------------- F. contact form
InitForm(formIds, startForms) ==
  /\ formspreeFormId \in formIds
  /\ fields \in startForms
  /\ statusText = ""
  /\ statusClass = StatusClassOf("")
  /\ submitDisabled = FALSE
  /\ submitLabel = SendLabel
  /\ fieldError = {}
  /\ errorTimers = [f \in FieldNames |-> <<>>]
  /\ inflight = <<>>
  /\ fetchCalls = 0
  /\ mailtoClicks = 0
  /\ mailtoHref = [to |-> "", subject |-> <<>>, body |-> <<>>]
  /\ mailtoAnchors = 0
  /\ emailValue = <<>>
  /\ formIsValid = TRUE
  /\ lastReply = NoReply

\* Outside the submit handler its locals do not exist, and no reply is
\* being delivered.
HandlerLocalsGone ==
  /\ emailValue' = <<>>
  /\ formIsValid' = TRUE
  /\ lastReply' = NoReply

\* Timeouts are punctual: a callback that is due runs before the next
\* event of the user is delivered.
NoTimeoutDue ==
  \A f \in FieldNames : errorTimers[f] # <<>> => Head(errorTimers[f]) > 0

\* The user edits the form.
EditForm(form) ==
  /\ fields # form
  /\ NoTimeoutDue
  /\ fields' = form
  /\ lastEvent' = "input"
  /\ HandlerLocalsGone
  /\ UNCHANGED <<formspreeFormId, statusText, statusClass, submitDisabled,
                 submitLabel, fieldError, errorTimers, inflight, fetchCalls,
                 mailtoClicks, mailtoHref, mailtoAnchors>>
  /\ UNCHANGED <<spyVars, menuVars, animVars>>

\* Variant: the fallback is taken whatever the form id.
UseMailtoFallback_Always == TRUE

\* line 411: Formspree not yet configured
UseMailtoFallback == formspreeFormId = UNSET_FORM_ID

\* contactForm "submit" listener
\* line 359: the delay of the removal timeout
ERROR_DURATION == 600

\* Variant: validation stops at the first invalid field.
FlaggedFields_FirstOnly(invalid) ==
  {f \in invalid :
     \A g \in invalid : \E i, j \in 1..Len(FieldOrder) :
        FieldOrder[i] = f /\ FieldOrder[j] = g /\ i <= j}

\* lines 387-403: applyFieldError is called in each failing test
FlaggedFields(invalid) == invalid

\* setTimeout callback of applyFieldError
FieldErrorTimeout(f) ==
  /\ errorTimers[f] # <<>>
  /\ Head(errorTimers[f]) = 0
  /\ errorTimers' = [errorTimers EXCEPT ![f] = Tail(@)]
  /\ fieldError' = fieldError \ {f}
  /\ lastEvent' = "timeout"
  /\ HandlerLocalsGone
  /\ UNCHANGED <<formspreeFormId, fields, statusText, statusClass, submitDisabled,
                 submitLabel, inflight, fetchCalls, mailtoClicks, mailtoHref, mailtoAnchors,
                 spyVars, menuVars, animVars>>

\* d units of time pass: allowed while no pending timeout is due sooner
TimePasses(d) ==
  /\ (\E f \in FieldNames : errorTimers[f] # <<>>) \/ barTimers # <<>>
  /\ \A f \in FieldNames : \A i \in 1..Len(errorTimers[f]) : errorTimers[f][i] >= d
  /\ \A i \in 1..Len(barTimers) : barTimers[i].left >= d
  /\ errorTimers' = [f \in FieldNames |->
                       [i \in 1..Len(errorTimers[f]) |-> errorTimers[f][i] - d]]
  /\ barTimers' = [i \in 1..Len(barTimers) |->
                     [barTimers[i] EXCEPT !.left = @ - d]]
  /\ fillClock' = IF barTimers # <<>> THEN fillClock + d ELSE fillClock
  /\ lastEvent' = "time"
  /\ HandlerLocalsGone
  /\ UNCHANGED <<formspreeFormId, fields, statusText, statusClass, submitDisabled,
                 submitLabel, fieldError, inflight, fetchCalls, mailtoClicks,
                 mailtoHref, mailtoAnchors, spyVars, menuVars>>
  /\ UNCHANGED <<ioReady, inView, isRevealed, revealObserved, revealQueue,
                 skillsSection, skillsInView, bars, barWidth, hasAnimated,
                 skillsObserved, skillsQueue, fillRuns, animPhase>>

\* Variant: the label is restored, the control stays disabled.
RestoreSubmitControl_LabelOnly ==
  /\ submitLabel' = SendLabel
  /\ UNCHANGED submitDisabled

\* lines 463-465 and 484-486: both callbacks start by restoring the control
RestoreSubmitControl ==
  /\ submitDisabled' = FALSE
  /\ submitLabel' = SendLabel

\* The promise chain of request i settles on reply r: the second .then
\* callback runs when the body parsed, the .catch callback otherwise.
\* Variant: a request that failed is issued again.
InflightAfterSettle_Retries(i, r) ==
  IF r.kind = "response" /\ r.ok
  THEN SubSeq(inflight, 1, i - 1) \o SubSeq(inflight, i + 1, Len(inflight))
  ELSE inflight

\* lines 456-491: the request is over once its promise settled; neither
\* callback calls fetch
InflightAfterSettle(i, r) ==
  SubSeq(inflight, 1, i - 1) \o SubSeq(inflight, i + 1, Len(inflight))

FetchSettles(i, r) ==
  LET parsed == r.kind = "response" /\ r.body # "unparseable"
      serverError == IF r.body = "jsonWithError" THEN ServerErrorText ELSE MsgGeneric
  IN
  /\ i \in 1..Len(inflight)
  /\ inflight' = InflightAfterSettle(i, r)
  /\ RestoreSubmitControl
  /\ lastEvent' = "settled"
  /\ lastReply' = r
  /\ emailValue' = <<>>
  /\ formIsValid' = TRUE
  /\ IF parsed /\ r.ok
     THEN /\ statusText' = MsgSent
          /\ statusClass' = StatusClassOf("success")
          /\ fields' = EmptyForm
     ELSE IF parsed
     THEN /\ statusText' = serverError
          /\ statusClass' = StatusClassOf("error")
          /\ UNCHANGED fields
     ELSE /\ statusText' = MsgNetwork
          /\ statusClass' = StatusClassOf("error")
          /\ UNCHANGED fields
  /\ UNCHANGED <<formspreeFormId, fieldError, errorTimers, fetchCalls,
                 mailtoClicks, mailtoHref, mailtoAnchors>>
  /\ UNCHANGED <<spyVars, menuVars, animVars>>

\* ----------------------------------------------------------- B. scroll-spy
SECTION_IDS == <<"home", "about", "projects", "skills", "contact">>
TOP_RESET == 80

\* Variant: the class is added to the matching links, never removed.
HighlightLinks_AddOnly(activeId) ==
  [i \in 1..Len(navLinks) |-> navLinks[i] = activeId \/ linkActive[i]]

\* line 88: classList.toggle("is-active", matches) on every link
HighlightLinks(activeId) == [i \in 1..Len(navLinks) |-> navLinks[i] = activeId]

\* Variant: a section whose top is on the trigger line does not count.
AtOrAboveTriggerLine_Strict(top, y, h) == 5 * top < 5 * y + 2 * h

\* window.innerHeight * 0.4 is compared in fifths, which is exact on integers:
\* offsetTop <= pageYOffset + innerHeight * 0.4
AtOrAboveTriggerLine(top, y, h) == 5 * top <= 5 * y + 2 * h

\* The forEach of detectActiveSection from SECTION_IDS[i] on.
RECURSIVE DetectWalk(_, _, _, _, _)
DetectWalk(i, current, els, y, h) ==
  IF i > Len(SECTION_IDS) THEN current
  ELSE LET sectionId == SECTION_IDS[i]
       IN IF sectionId \in DOMAIN els /\ AtOrAboveTriggerLine(els[sectionId], y, h)
          THEN DetectWalk(i + 1, sectionId, els, y, h)
          ELSE DetectWalk(i + 1, current, els, y, h)

detectActiveSection(els, y, h) ==
  IF y < TOP_RESET THEN "home" ELSE DetectWalk(1, SECTION_IDS[1], els, y, h)

\* highlightActiveSection(detectActiveSection())
\* Variant: aria-current is set on a match and never removed.
AriaCurrentOf_AddOnly(activeId) ==
  [i \in 1..Len(navLinks) |-> navLinks[i] = activeId \/ linkAriaCurrent[i]]

\* lines 89-93: aria-current is set on a match and removed otherwise
AriaCurrentOf(activeId) ==
  [i \in 1..Len(navLinks) |-> IF navLinks[i] = activeId THEN TRUE ELSE FALSE]

Evaluate ==
  LET id == detectActiveSection(sectionEls, pageYOffset, innerHeight)
  IN /\ activeSectionId' = id
     /\ linkActive' = HighlightLinks(id)
     /\ linkAriaCurrent' = AriaCurrentOf(id)

\* One link per section, and the same with the links repeated in the
\* mobile panel.
NavLinkSets ==
  { SECTION_IDS, SECTION_IDS \o SECTION_IDS }

ExampleLayout == [s \in {"home", "about", "projects"} |->
                    CASE s = "home" -> 0 [] s = "about" -> 800 [] s = "projects" -> 1600]
FullLayout == [s \in {"home", "about", "projects", "skills", "contact"} |->
                 CASE s = "home" -> 0 [] s = "about" -> 800 [] s = "projects" -> 1600
                   [] s = "skills" -> 2400 [] s = "contact" -> 3200]
ShiftedLayout == [s \in DOMAIN FullLayout |->
                    IF s = "home" THEN 0 ELSE FullLayout[s] + 120]
SpyLayouts == {ExampleLayout, FullLayout, ShiftedLayout}

ScrollPositions == {0, 40, 79, 80, 400, 900, 1200, 3000}
ViewportHeights == {1000, 1001}

OffsetValues == {0, 800, 1600}
SectionIdSet == {SECTION_IDS[i] : i \in 1..Len(SECTION_IDS)}
AllLayouts == UNION {[present -> OffsetValues] : present \in SUBSET SectionIdSet}

InitSpy(layouts, linkSets, positions, heights) ==
  /\ sectionEls \in layouts
  /\ pageYOffset \in positions
  /\ innerHeight \in heights
  /\ navLinks \in linkSets
  /\ linkActive = [i \in 1..Len(navLinks) |-> FALSE]
  /\ linkAriaCurrent = [i \in 1..Len(navLinks) |-> FALSE]
  /\ rafScheduled = FALSE
  /\ rafQueue = 0
  /\ scrollBurst = 0
  /\ spyPhase = "boot"
  /\ activeSectionId = ""

\* line 138: the evaluation the script makes while it is being run
SpyStartup ==
  /\ spyPhase = "boot"
  /\ spyPhase' = "ready"
  /\ Evaluate
  /\ lastEvent' = "startup"
  /\ UNCHANGED <<sectionEls, pageYOffset, innerHeight, navLinks, rafScheduled,
                 rafQueue, scrollBurst>>
  /\ UNCHANGED <<formVars, menuVars, animVars>>

\* Variant: every scroll event requests a frame.
ShouldSchedule_Always == TRUE

\* line 124: a frame is requested only when none is pending
ShouldSchedule == ~rafScheduled

\* window "scroll" listener, after the page scrolled to y
ScrollEvent(y) ==
  /\ spyPhase # "boot"
  /\ y # pageYOffset
  /\ scrollBurst < MaxBurst
  /\ pageYOffset' = y
  /\ scrollBurst' = scrollBurst + 1
  /\ IF ShouldSchedule
     THEN rafScheduled' = TRUE /\ rafQueue' = rafQueue + 1
     ELSE UNCHANGED <<rafScheduled, rafQueue>>
  /\ lastEvent' = "scroll"
  /\ UNCHANGED <<sectionEls, innerHeight, navLinks, linkActive, linkAriaCurrent,
                 spyPhase, activeSectionId>>
  /\ UNCHANGED <<formVars, menuVars, animVars>>

\* Variant: the callback leaves the flag set.
FlagAfterFrame_Stuck == TRUE

\* line 128: rafScheduled = false
FlagAfterFrame == FALSE

\* the requestAnimationFrame callback
AnimationFrame ==
  /\ rafQueue > 0
  /\ rafQueue' = rafQueue - 1
  /\ scrollBurst' = 0
  /\ Evaluate
  /\ rafScheduled' = FlagAfterFrame
  /\ lastEvent' = "frame"
  /\ UNCHANGED <<sectionEls, pageYOffset, innerHeight, navLinks, spyPhase>>
  /\ UNCHANGED <<formVars, menuVars, animVars>>

\* window "load" listener
LoadEvent ==
  /\ spyPhase = "ready"
  /\ spyPhase' = "loaded"
  /\ Evaluate
  /\ lastEvent' = "load"
  /\ UNCHANGED <<sectionEls, pageYOffset, innerHeight, navLinks, rafScheduled,
                 rafQueue, scrollBurst>>
  /\ UNCHANGED <<formVars, menuVars, animVars>>

\* Fonts, images and resizes move the sections.
LayoutShift(els) ==
  /\ spyPhase # "boot"
  /\ els # sectionEls
  /\ sectionEls' = els
  /\ lastEvent' = "layout"
  /\ UNCHANGED <<pageYOffset, innerHeight, navLinks, linkActive, linkAriaCurrent,
                 rafScheduled, rafQueue, scrollBurst, spyPhase, activeSectionId>>
  /\ UNCHANGED <<formVars, menuVars, animVars>>

\* ---------------------------------------------- C. mobile menu, A. scrolling
LabelOpen == "Open navigation menu"
LabelClose == "Close navigation menu"
BREATHING_ROOM == 8
NavHeights == {0, 64}
FocusTargets == {"body", "hamburger", "menuLink", "field"}

\* The class and the three attributes the two functions write
MenuState ==
  [open |-> panelOpen, hidden |-> panelAriaHidden, expanded |-> ariaExpanded,
   label |-> ariaLabel]

MenuBecomes(m) ==
  /\ panelOpen' = m.open
  /\ panelAriaHidden' = m.hidden
  /\ ariaExpanded' = m.expanded
  /\ ariaLabel' = m.label

\* openMobileMenu as a function of the menu state
MenuAfterOpen(m) ==
  IF ~mobileMenuPanel \/ ~hamburgerButton THEN m
  ELSE [open |-> TRUE, hidden |-> "false", expanded |-> "true", label |-> LabelClose]

\* Variant: the class is toggled instead of removed.
MenuAfterClose_Toggles(m) ==
  IF ~mobileMenuPanel \/ ~hamburgerButton THEN m
  ELSE IF m.open
       THEN [open |-> FALSE, hidden |-> "true", expanded |-> "false", label |-> LabelOpen]
       ELSE [open |-> TRUE, hidden |-> "true", expanded |-> "false", label |-> LabelOpen]

\* closeMobileMenu as a function of the menu state
MenuAfterClose(m) ==
  IF ~mobileMenuPanel \/ ~hamburgerButton THEN m
  ELSE [open |-> FALSE, hidden |-> "true", expanded |-> "false", label |-> LabelOpen]

openMobileMenu == MenuBecomes(MenuAfterOpen(MenuState))

\* Variant: the label of the button is left as it is.
closeMobileMenu_KeepsLabel ==
  IF ~mobileMenuPanel \/ ~hamburgerButton
  THEN UNCHANGED <<panelOpen, panelAriaHidden, ariaExpanded, ariaLabel>>
  ELSE /\ panelOpen' = FALSE
       /\ panelAriaHidden' = "true"
       /\ ariaExpanded' = "false"
       /\ UNCHANGED ariaLabel

closeMobileMenu == MenuBecomes(MenuAfterClose(MenuState))

\* The markup renders the menu closed, as closeMobileMenu leaves it.
InitMenu ==
  /\ hamburgerButton \in BOOLEAN
  /\ mobileMenuPanel \in BOOLEAN
  /\ panelOpen = FALSE
  /\ panelAriaHidden = "true"
  /\ ariaExpanded = "false"
  /\ ariaLabel = LabelOpen
  /\ focus = "body"
  /\ navHeight \in NavHeights
  /\ defaultPrevented = FALSE
  /\ scrollToCalls = <<>>
  /\ clickTarget = <<>>

\* initMobileMenu registered its two listeners
MenuListening == hamburgerButton /\ mobileMenuPanel

\* hamburgerButton "click" listener
HamburgerClick ==
  /\ MenuListening
  /\ IF panelOpen THEN closeMobileMenu ELSE openMobileMenu
  /\ lastEvent' = "toggle"
  /\ UNCHANGED <<hamburgerButton, mobileMenuPanel, focus, navHeight,
                 defaultPrevented, scrollToCalls, clickTarget>>
  /\ UNCHANGED <<formVars, spyVars, animVars>>

\* Variant: focus stays where it was.
FocusAfterEscape_Unmoved == focus

\* line 199: hamburgerButton.focus()
FocusAfterEscape == "hamburger"

\* document "keydown" listener (not registered when an element is missing)
Keydown(key) ==
  /\ lastEvent' = IF key = "Escape" THEN "escape" ELSE "key"
  /\ IF MenuListening /\ key = "Escape" /\ panelOpen
     THEN /\ closeMobileMenu
          /\ focus' = FocusAfterEscape
     ELSE UNCHANGED <<panelOpen, panelAriaHidden, ariaExpanded, ariaLabel, focus>>
  /\ UNCHANGED <<hamburgerButton, mobileMenuPanel, navHeight, defaultPrevented,
                 scrollToCalls, clickTarget>>
  /\ UNCHANGED <<formVars, spyVars, animVars>>

\* The user moves keyboard focus (Tab, or a click into a field).
FocusMoves(t) ==
  /\ t # focus
  /\ t = "hamburger" => hamburgerButton
  /\ t = "menuLink" => mobileMenuPanel
  /\ focus' = t
  /\ lastEvent' = "focus"
  /\ UNCHANGED <<hamburgerButton, mobileMenuPanel, panelOpen, panelAriaHidden,
                 ariaExpanded, ariaLabel, navHeight, defaultPrevented, scrollToCalls,
                 clickTarget>>
  /\ UNCHANGED <<formVars, spyVars, animVars>>

\* A click target is the chain of elements from the clicked element up to
\* the root; an href is "#" followed by the fragment, or some other token.
Anchor(href) == [tag |-> "a", href |-> href]
Other(tag) == [tag |-> tag, href |-> <<>>]

ClickTargets ==
  { <<Other("div")>>,
    <<Anchor(<<"#", "about">>)>>,
    <<Other("svg"), Anchor(<<"#", "projects">>), Other("nav")>>,
    <<Anchor(<<"#">>)>>,
    <<Anchor(<<"#", "nosuch">>)>>,
    <<Other("span"), Anchor(<<"https://github.com">>)>>,
    <<Anchor(<<"mailto:hello@mdkportfolio.dev">>)>> }

\* element.closest('a[href^="#"]') along the chain from position i
RECURSIVE Closest(_, _)
Closest(chain, i) ==
  IF i > Len(chain) THEN <<>>
  ELSE IF chain[i].tag = "a" /\ chain[i].href # <<>> /\ chain[i].href[1] = "#"
       THEN <<chain[i]>>
       ELSE Closest(chain, i + 1)

\* Variant: the height of the navigation bar is not subtracted.
ScrollDestination_IgnoresNav(sectionTop) == sectionTop - BREATHING_ROOM

\* line 55: scrollDestination
ScrollDestination(sectionTop) == sectionTop - navHeight - BREATHING_ROOM

\* Variant: the menu is closed before the handler bails out.
MenuAfterIgnoredClick_Closes == closeMobileMenu

\* lines 36, 40, 44: the early returns come before the menu is touched
MenuAfterIgnoredClick ==
  UNCHANGED <<panelOpen, panelAriaHidden, ariaExpanded, ariaLabel>>

\* document "click" listener of initSmoothScroll, for a click on target
ClickListener(target) ==
  LET anchor == Closest(target, 1)
      targetHash == anchor[1].href
      targetSectionId == Tail(targetHash)
      handled == /\ anchor # <<>>
                 /\ targetHash # <<"#">>
                 /\ Len(targetSectionId) = 1
                 /\ targetSectionId[1] \in DOMAIN sectionEls
      sectionTop == sectionEls[targetSectionId[1]]
  IN
  /\ clickTarget' = target
  /\ IF handled
     THEN /\ defaultPrevented' = TRUE
          /\ scrollToCalls' = <<ScrollDestination(sectionTop)>>
          /\ closeMobileMenu
     ELSE /\ defaultPrevented' = FALSE
          /\ scrollToCalls' = <<>>
          /\ MenuAfterIgnoredClick
  /\ UNCHANGED <<hamburgerButton, mobileMenuPanel, focus, navHeight>>

\* The user clicks somewhere in the page.
DocumentClick(target) ==
  /\ lastEvent' = "click"
  /\ ClickListener(target)
  /\ UNCHANGED <<formVars, spyVars, animVars>>

\* lines 425-428: the anchor the handler builds, as the target of its click:
\* a child of document.body whose href is the mailto URL
MailtoAnchor(h) ==
  <<Anchor(<<"mailto:", h.to, "?subject=">> \o h.subject \o <<"&body=">> \o h.body),
    Other("body")>>

\* Variant: the anchor is not removed after the click.
AnchorsAfterClick_NotRemoved(n) == n + 1

\* lines 428-430: appendChild, click, removeChild
AnchorsAfterClick(n) == (n + 1) - 1

\* form "submit" listener; maxTimers caps the removal timeouts pending on
\* one field
SubmitHandler(maxTimers) ==
  LET nameValue == Trim(fields["name"])
      emailVal == Trim(fields["email"])
      subjectValue == Trim(fields["subject"])
      messageValue == Trim(fields["message"])
      invalid == InvalidFields(nameValue, emailVal, subjectValue, messageValue)
      valid == invalid = {}
  IN
  /\ valid => fetchCalls + mailtoClicks < MaxSubmissions
  /\ \A f \in invalid : Len(errorTimers[f]) < maxTimers
  /\ NoTimeoutDue
  /\ lastEvent' = "submit"
  /\ emailValue' = emailVal
  /\ formIsValid' = valid
  /\ fieldError' = fieldError \cup FlaggedFields(invalid)
  /\ errorTimers' = [f \in FieldNames |->
                       IF f \in FlaggedFields(invalid)
                       THEN Append(errorTimers[f], ERROR_DURATION)
                       ELSE errorTimers[f]]
  /\ lastReply' = NoReply
  /\ UNCHANGED <<formspreeFormId, fields, spyVars, animVars>>
  /\ IF ~valid
     THEN /\ statusText' = MsgInvalid
          /\ statusClass' = StatusClassOf("error")
          /\ UNCHANGED <<submitDisabled, submitLabel, inflight, fetchCalls,
                         mailtoClicks, mailtoHref, mailtoAnchors>>
          /\ UNCHANGED menuVars
     ELSE IF UseMailtoFallback
     THEN /\ mailtoHref' = MailtoHrefOf(nameValue, emailVal, subjectValue, messageValue)
          /\ mailtoClicks' = mailtoClicks + 1
          /\ statusText' = MsgMailto
          /\ statusClass' = StatusClassOf("success")
          /\ mailtoAnchors' = AnchorsAfterClick(mailtoAnchors)
          /\ ClickListener(MailtoAnchor(MailtoHrefOf(nameValue, emailVal,
                                                     subjectValue, messageValue)))
          /\ UNCHANGED <<submitDisabled, submitLabel, inflight, fetchCalls>>
     ELSE /\ submitDisabled' = TRUE
          /\ submitLabel' = SendingLabel
          /\ inflight' = Append(inflight, [name |-> nameValue, email |-> emailVal,
                                           subject |-> subjectValue,
                                           message |-> messageValue])
          /\ fetchCalls' = fetchCalls + 1
          /\ statusText' = ""
          /\ statusClass' = StatusClassOf("")
          /\ UNCHANGED <<mailtoClicks, mailtoHref, mailtoAnchors>>
          /\ UNCHANGED menuVars


\* ------------------------------------- D. reveal animations, E. skill bars
RevealEls == 1..MaxRevealEls

\* line 285: the delay between two bars
BAR_STAGGER == 80

\* data-fill-width of bar number i: every bar has its own target
TargetOf(i) == 95 - 10 * i

\* The skill bars of the page: none up to MaxBars; they are part of the
\* skills section.
BarLayouts(hasSection) ==
  IF hasSection
  THEN {[i \in 1..n |-> TargetOf(i)] : n \in 0..MaxBars}
  ELSE {<<>>}

InitAnim(ioSet, sectionSet, views, skillViews) ==
  /\ ioReady \in ioSet
  /\ inView \in views
  /\ isRevealed = [e \in RevealEls |-> FALSE]
  /\ revealObserved = {}
  /\ revealQueue = <<>>
  /\ skillsSection \in sectionSet
  /\ skillsInView \in skillViews
  /\ bars \in BarLayouts(skillsSection)
  /\ barWidth = [i \in 1..Len(bars) |-> <<>>]
  /\ barTimers = <<>>
  /\ hasAnimated = FALSE
  /\ skillsObserved = FALSE
  /\ skillsQueue = <<>>
  /\ fillRuns = 0
  /\ fillClock = 0
  /\ animPhase = "boot"

\* The page puts js-io-ready on <html> exactly when the environment has
\* IntersectionObserver (the marker class of the DOM contract).
IntersectionObserverAvailable == ioReady

\* Variant: without the observer only the elements in view are revealed.
RevealAllNow_OnlyVisible == [e \in RevealEls |-> inView[e]]

\* lines 226-231: is-revealed is added to every reveal element
RevealAllNow == [e \in RevealEls |-> TRUE]

\* The entry an observer queues for a target it starts to watch
InitialEntries == [e \in RevealEls |-> [target |-> e, isIntersecting |-> inView[e]]]

\* initRevealAnimations, run once when the script is evaluated
RevealStartup ==
  /\ animPhase = "boot"
  /\ animPhase' = "revealReady"
  /\ IF ~ioReady
     THEN /\ isRevealed' = RevealAllNow
          /\ UNCHANGED <<revealObserved, revealQueue>>
     ELSE /\ revealObserved' = RevealEls
          /\ revealQueue' = InitialEntries
          /\ UNCHANGED isRevealed
  /\ lastEvent' = "revealStartup"
  /\ UNCHANGED <<ioReady, inView, skillsSection, skillsInView, bars, barWidth,
                 barTimers, hasAnimated, skillsObserved, skillsQueue, fillRuns,
                 fillClock>>
  /\ UNCHANGED <<formVars, spyVars, menuVars>>

\* Scrolling or layout moves reveal element e into or out of the root; the
\* observer queues an entry when it watches e.
RevealIntersectionChange(e) ==
  /\ animPhase = "ready"
  /\ inView' = [inView EXCEPT ![e] = ~@]
  /\ IF e \in revealObserved
     THEN /\ Len(revealQueue) < MaxEntries
          /\ revealQueue' = Append(revealQueue,
                                   [target |-> e, isIntersecting |-> ~inView[e]])
     ELSE UNCHANGED revealQueue
  /\ lastEvent' = "revealIntersection"
  /\ UNCHANGED <<ioReady, isRevealed, revealObserved, skillsSection, skillsInView,
                 bars, barWidth, barTimers, hasAnimated, skillsObserved,
                 skillsQueue, fillRuns, fillClock, animPhase>>
  /\ UNCHANGED <<formVars, spyVars, menuVars>>

\* The targets of the intersecting entries of a batch
Intersecting(entries) ==
  {entries[i].target : i \in {j \in 1..Len(entries) : entries[j].isIntersecting}}

\* callback of revealObserver, with every entry queued so far
RevealCallback ==
  /\ revealQueue # <<>>
  /\ isRevealed' = [e \in RevealEls |->
                      isRevealed[e] \/ e \in Intersecting(revealQueue)]
  /\ revealObserved' = revealObserved \ Intersecting(revealQueue)
  /\ revealQueue' = <<>>
  /\ lastEvent' = "revealCallback"
  /\ UNCHANGED <<ioReady, inView, skillsSection, skillsInView, bars, barWidth,
                 barTimers, hasAnimated, skillsObserved, skillsQueue, fillRuns,
                 fillClock, animPhase>>
  /\ UNCHANGED <<formVars, spyVars, menuVars>>

\* Variant: every timeout is set with delay 0.
FillTimers_NoStagger ==
  [i \in 1..Len(bars) |-> [bar |-> i, width |-> bars[i], left |-> 0]]

\* fillBars: one timeout per bar, bar number i (index i - 1) after
\* (i - 1) * 80, carrying the width read when the timeout is set
FillTimers ==
  [i \in 1..Len(bars) |->
     [bar |-> i, width |-> bars[i], left |-> (i - 1) * BAR_STAGGER]]

RECURSIVE Times(_, _)
Times(n, s) == IF n = 0 THEN <<>> ELSE s \o Times(n - 1, s)

\* Variant: the callback does not look at hasAnimated.
FillRunsFor_Unguarded(entries) ==
  Cardinality({i \in 1..Len(entries) : entries[i]})

\* line 298: the calls of fillBars one batch of entries makes
FillRunsFor(entries) ==
  IF ~hasAnimated /\ \E i \in 1..Len(entries) : entries[i] THEN 1 ELSE 0

\* initSkillBarAnimations, run once after initRevealAnimations
SkillsStartup ==
  /\ animPhase = "revealReady"
  /\ animPhase' = "ready"
  /\ IF ~skillsSection
     THEN UNCHANGED <<barTimers, fillRuns, fillClock, skillsObserved, skillsQueue>>
     ELSE IF ~ioReady
     THEN /\ barTimers' = barTimers \o FillTimers
          /\ fillRuns' = fillRuns + 1
          /\ fillClock' = 0
          /\ UNCHANGED <<skillsObserved, skillsQueue>>
     ELSE /\ skillsObserved' = TRUE
          /\ skillsQueue' = <<skillsInView>>
          /\ UNCHANGED <<barTimers, fillRuns, fillClock>>
  /\ lastEvent' = "skillsStartup"
  /\ UNCHANGED <<ioReady, inView, isRevealed, revealObserved, revealQueue,
                 skillsSection, skillsInView, bars, barWidth, hasAnimated>>
  /\ UNCHANGED <<formVars, spyVars, menuVars>>

\* The skills section moves into or out of the root.
SkillsIntersectionChange ==
  /\ animPhase = "ready"
  /\ skillsSection
  /\ skillsInView' = ~skillsInView
  /\ IF skillsObserved
     THEN /\ Len(skillsQueue) < MaxEntries
          /\ skillsQueue' = Append(skillsQueue, ~skillsInView)
     ELSE UNCHANGED skillsQueue
  /\ lastEvent' = "skillsIntersection"
  /\ UNCHANGED <<ioReady, inView, isRevealed, revealObserved, revealQueue,
                 skillsSection, bars, barWidth, barTimers, hasAnimated,
                 skillsObserved, fillRuns, fillClock, animPhase>>
  /\ UNCHANGED <<formVars, spyVars, menuVars>>

\* callback of skillsObserver, with every entry queued so far
SkillsCallback ==
  LET runs == FillRunsFor(skillsQueue)
  IN /\ skillsQueue # <<>>
     /\ hasAnimated' = (hasAnimated \/ runs > 0)
     /\ barTimers' = barTimers \o Times(runs, FillTimers)
     /\ fillRuns' = fillRuns + runs
     /\ fillClock' = IF runs > 0 THEN 0 ELSE fillClock
     /\ skillsObserved' = (skillsObserved /\ runs = 0)
     /\ skillsQueue' = <<>>
     /\ lastEvent' = "skillsCallback"
     /\ UNCHANGED <<ioReady, inView, isRevealed, revealObserved, revealQueue,
                    skillsSection, skillsInView, bars, barWidth, animPhase>>
     /\ UNCHANGED <<formVars, spyVars, menuVars>>

\* The fill timeout that runs next: the first one set among those due
NextDue == {k \in 1..Len(barTimers) :
              /\ barTimers[k].left = 0
              /\ \A j \in 1..(k - 1) : barTimers[j].left # 0}

\* setTimeout callback of fillBars
BarTimeout ==
  /\ \E k \in NextDue :
       /\ barWidth' = [barWidth EXCEPT ![barTimers[k].bar] =
                                         <<barTimers[k].width, "%">>]
       /\ barTimers' = SubSeq(barTimers, 1, k - 1)
                         \o SubSeq(barTimers, k + 1, Len(barTimers))
  /\ lastEvent' = "barTimeout"
  /\ UNCHANGED <<ioReady, inView, isRevealed, revealObserved, revealQueue,
                 skillsSection, skillsInView, bars, hasAnimated, skillsObserved,
                 skillsQueue, fillRuns, fillClock, animPhase>>
  /\ UNCHANGED <<formVars, spyVars, menuVars>>

\* ------------------------------------------------------------ specifications
NextForm ==
  \/ \E form \in SampleForms : EditForm(form)
  \/ SubmitHandler(MaxPendingTimers)
  \/ \E f \in FieldNames : FieldErrorTimeout(f)
  \/ TimePasses(ERROR_DURATION)
  \/ \E i \in 1..MaxSubmissions, r \in Replies : FetchSettles(i, r)

NextEmail ==
  \/ SubmitHandler(MaxPendingTimers)
  \/ \E f \in FieldNames : FieldErrorTimeout(f)
  \/ TimePasses(ERROR_DURATION)

NextValidate ==
  \/ SubmitHandler(MaxPendingTimers)
  \/ \E f \in FieldNames : FieldErrorTimeout(f)
  \/ TimePasses(ERROR_DURATION)
  \/ \E i \in 1..MaxSubmissions, r \in Replies : FetchSettles(i, r)

\* Invalid submissions half a timeout apart.
HalfDuration == ERROR_DURATION \div 2

NextTimers ==
  \/ \E form \in TimerForms : EditForm(form)
  \/ SubmitHandler(MaxOverlap)
  \/ \E f \in FieldNames : FieldErrorTimeout(f)
  \/ TimePasses(HalfDuration)

NextAnim ==
  \/ RevealStartup
  \/ SkillsStartup
  \/ \E e \in RevealEls : RevealIntersectionChange(e)
  \/ RevealCallback
  \/ SkillsIntersectionChange
  \/ SkillsCallback
  \/ BarTimeout
  \/ TimePasses(BAR_STAGGER)

NextMailto ==
  \/ \E form \in MailtoForms : EditForm(form)
  \/ SubmitHandler(MaxPendingTimers)
  \/ HamburgerClick
  \/ \E target \in ClickTargets : DocumentClick(target)

NextDetect ==
  \/ SpyStartup
  \/ LoadEvent

NextSpy ==
  \/ SpyStartup
  \/ \E y \in ScrollPositions : ScrollEvent(y)
  \/ AnimationFrame
  \/ LoadEvent
  \/ \E els \in SpyLayouts : LayoutShift(els)

NextMenu ==
  \/ HamburgerClick
  \/ \E key \in {"Escape", "Enter"} : Keydown(key)
  \/ \E t \in FocusTargets : FocusMoves(t)
  \/ \E target \in ClickTargets : DocumentClick(target)

FilledForms(emails) ==
  {[f \in FieldNames |-> IF f = "email" THEN e ELSE <<"a">>] : e \in emails}

SpyAtRest == InitSpy({ExampleLayout}, {SECTION_IDS}, {0}, {1000})

\* The animation units before they run, on a page without a skills section.
AnimAtRest ==
  InitAnim({TRUE}, {FALSE}, {[e \in RevealEls |-> FALSE]}, {FALSE})

MenuAtRest == InitMenu /\ hamburgerButton /\ mobileMenuPanel /\ navHeight = 64

InitFormSpec ==
  /\ InitForm(FormIds, {EmptyForm})
  /\ SpyAtRest
  /\ MenuAtRest
  /\ AnimAtRest
  /\ lastEvent = "none"

\* Every email string of the input domain, in an otherwise filled-in form.
InitEmailSpec ==
  /\ InitForm({UNSET_FORM_ID}, FilledForms(EmailInputs))
  /\ SpyAtRest
  /\ MenuAtRest
  /\ AnimAtRest
  /\ lastEvent = "none"

\* Every combination of field inputs, with and without a form id.
InitValidateSpec ==
  /\ InitForm(FormIds, AllForms)
  /\ SpyAtRest
  /\ MenuAtRest
  /\ AnimAtRest
  /\ lastEvent = "none"

InitTimersSpec ==
  /\ InitForm({UNSET_FORM_ID}, TimerForms)
  /\ SpyAtRest
  /\ MenuAtRest
  /\ AnimAtRest
  /\ lastEvent = "none"

\* With and without the observer, with and without a skills section,
\* every element in or out of view.
InitAnimSpec ==
  /\ InitForm({UNSET_FORM_ID}, {EmptyForm})
  /\ SpyAtRest
  /\ MenuAtRest
  /\ InitAnim(BOOLEAN, BOOLEAN, [RevealEls -> BOOLEAN], BOOLEAN)
  /\ lastEvent = "none"

\* Every layout, viewport height and (restored) scroll position.
InitDetectSpec ==
  /\ InitForm({UNSET_FORM_ID}, {EmptyForm})
  /\ InitSpy(AllLayouts, {SECTION_IDS}, ScrollPositions, ViewportHeights)
  /\ MenuAtRest
  /\ AnimAtRest
  /\ lastEvent = "none"

InitSpySpec ==
  /\ InitForm({UNSET_FORM_ID}, {EmptyForm})
  /\ InitSpy(SpyLayouts, NavLinkSets, {0, 900}, {1000})
  /\ MenuAtRest
  /\ AnimAtRest
  /\ lastEvent = "none"

\* No form id, a valid form, the menu in every configuration.
InitMailtoSpec ==
  /\ InitForm({UNSET_FORM_ID}, MailtoForms)
  /\ SpyAtRest
  /\ InitMenu
  /\ AnimAtRest
  /\ lastEvent = "none"

InitMenuSpec ==
  /\ InitForm({UNSET_FORM_ID}, {EmptyForm})
  /\ InitSpy({ExampleLayout}, {SECTION_IDS}, {0}, {1000})
  /\ InitMenu
  /\ AnimAtRest
  /\ lastEvent = "none"

SpecForm == InitFormSpec /\ [][NextForm]_vars
SpecEmail == InitEmailSpec /\ [][NextEmail]_vars
SpecValidate == InitValidateSpec /\ [][NextValidate]_vars
SpecAnim == InitAnimSpec /\ [][NextAnim]_vars
SpecTimers == InitTimersSpec /\ [][NextTimers]_vars
SpecDetect == InitDetectSpec /\ [][NextDetect]_vars
SpecSpy == InitSpySpec /\ [][NextSpy]_vars
SpecMenu == InitMenuSpec /\ [][NextMenu]_vars
SpecMailto == InitMailtoSpec /\ [][NextMailto]_vars

\* Fairness: the browser keeps delivering animation frames.
SpecSpyFair == SpecSpy /\ WF_vars(AnimationFrame)

\* Fairness: the script runs to its end, time passes and due timeouts run.
SpecAnimFair ==
  /\ SpecAnim
  /\ WF_vars(RevealStartup)
  /\ WF_vars(SkillsStartup)
  /\ WF_vars(BarTimeout)
  /\ WF_vars(TimePasses(BAR_STAGGER))

\* Fairness: the transport settles every request (fetch resolves or rejects).
SpecFormFair == SpecForm /\ WF_vars(\E i \in 1..MaxSubmissions, r \in Replies : FetchSettles(i, r))

\* ------------------------------------------------------------------ claims
\* s is empty once surrounding whitespace is removed
IsBlank(s) == \A i \in 1..Len(s) : IsSpace(s[i])

\* local part, "@", domain part with an inner dot; no whitespace, one "@"
WellFormedEmail(s) ==
  \E i, j \in 1..Len(s) :
    /\ 1 < i /\ i + 1 < j /\ j < Len(s)
    /\ s[i] = "@" /\ s[j] = "."
    /\ \A k \in 1..Len(s) : ~IsSpace(s[k]) /\ (k # i => s[k] # "@")

SomeFieldInvalid ==
  \/ IsBlank(fields["name"])
  \/ IsBlank(fields["subject"])
  \/ IsBlank(fields["message"])
  \/ ~WellFormedEmail(emailValue')

NoOutboundAction ==
  /\ fetchCalls' = fetchCalls
  /\ inflight' = inflight
  /\ mailtoClicks' = mailtoClicks
  /\ mailtoHref' = mailtoHref

\* C1: the submit control is disabled only while a remote request is in
\* flight; a validation failure and the mailto fallback leave it as it is;
\* every resolution of a request enables it and restores its label; a
\* disabled control is always enabled again.
C1_DisabledOnlyWhileInFlight ==
  /\ [](submitDisabled => Len(inflight) > 0)
  /\ [][lastEvent' = "submit" /\ (~formIsValid' \/ formspreeFormId = UNSET_FORM_ID)
          => submitDisabled' = submitDisabled /\ submitLabel' = submitLabel]_vars
  /\ [][lastEvent' = "settled" => ~submitDisabled' /\ submitLabel' = SendLabel]_vars
  /\ (submitDisabled ~> ~submitDisabled)

C1_Witness ==
  /\ lastEvent = "settled"
  /\ lastReply.kind = "transportFailure"
  /\ ~submitDisabled
  /\ submitLabel = SendLabel
  /\ inflight = <<>>
  /\ fetchCalls > 0

\* C2: a submit event with a blank name, subject or message, or with a
\* malformed email, has formIsValid false and issues no request and no
\* mailto action, whether or not the endpoint is configured.
C2_InvalidSubmitDoesNothing ==
  [][lastEvent' = "submit" /\ SomeFieldInvalid
       => ~formIsValid' /\ NoOutboundAction]_vars

C2_Witness ==
  /\ lastEvent = "submit"
  /\ ~formIsValid
  /\ IsBlank(fields["subject"])
  /\ ~IsBlank(fields["name"])
  /\ formspreeFormId # UNSET_FORM_ID
  /\ statusText = MsgInvalid

\* C3: a fully valid submission clicks exactly one mailto anchor and issues
\* no request when the form id is the sentinel, and issues exactly one
\* request and no mailto action when it is set.
C3_OneActionPerValidSubmit ==
  [][lastEvent' = "submit" /\ ~SomeFieldInvalid
       => IF formspreeFormId = UNSET_FORM_ID
          THEN /\ mailtoClicks' = mailtoClicks + 1
               /\ fetchCalls' = fetchCalls
               /\ inflight' = inflight
          ELSE /\ fetchCalls' = fetchCalls + 1
               /\ Len(inflight') = Len(inflight) + 1
               /\ mailtoClicks' = mailtoClicks
               /\ mailtoHref' = mailtoHref]_vars

C3_Witness ==
  /\ lastEvent = "submit"
  /\ formIsValid
  /\ formspreeFormId # UNSET_FORM_ID
  /\ fetchCalls = 1
  /\ Len(inflight) = 1
  /\ mailtoClicks = 0

\* C4: a successful response reports success and clears the four fields; a
\* failing response or a transport error leaves the four values unchanged.
C4_SuccessClearsFailureKeeps ==
  [][lastEvent' = "settled"
       => IF lastReply'.kind = "response" /\ lastReply'.ok
          THEN statusText' = MsgSent /\ fields' = EmptyForm
          ELSE fields' = fields]_vars

\* C5: a failing response reports the server's error text when it carries
\* one and the generic message otherwise; the transport-error message is
\* reported when no response was obtained.
C5_FailureStatus ==
  [][lastEvent' = "settled"
       => /\ lastReply'.kind = "response" /\ ~lastReply'.ok
             => statusText' = IF lastReply'.body = "jsonWithError"
                              THEN ServerErrorText ELSE MsgGeneric
          /\ lastReply'.kind = "transportFailure" => statusText' = MsgNetwork]_vars

\* C6: the email check accepts exactly the strings made of a non-empty local
\* part, "@", and a domain part with a dot that has a character on each
\* side, none of them holding whitespace or a second "@"; "a@b.c" is
\* accepted, "abc", "a@b" and "@b.c" are rejected.
C6_EmailCheck ==
  /\ isValidEmailAddress(fields["email"]) <=> WellFormedEmail(fields["email"])
  /\ lastEvent = "submit" => (formIsValid <=> WellFormedEmail(emailValue))
  /\ isValidEmailAddress(<<"a", "@", "b", ".", "c">>)
  /\ ~isValidEmailAddress(<<"a", "b", "c">>)
  /\ ~isValidEmailAddress(<<"a", "@", "b">>)
  /\ ~isValidEmailAddress(<<"@", "b", ".", "c">>)

C6_Witness ==
  /\ lastEvent = "submit"
  /\ fields["email"] = <<"a", "@", "b", ".", "c">>
  /\ formIsValid
  /\ mailtoClicks = 1

\* The links that carry the class is-active
ActiveLinks == {i \in 1..Len(navLinks) : linkActive[i]}

\* The sections, by position in page order, that are present with their top
\* at or above the trigger line pageYOffset + 40% of innerHeight
Qualifying ==
  {i \in 1..Len(SECTION_IDS) :
     /\ SECTION_IDS[i] \in DOMAIN sectionEls
     /\ 10 * sectionEls[SECTION_IDS[i]] <= 10 * pageYOffset + 4 * innerHeight}

\* C7: the scroll-spy selects the first section when the scroll position is
\* less than 80 from the top, and otherwise the last section in page order
\* whose top is at or above the trigger line; with home=0, about=800,
\* projects=1600 and height 1000, position 40 gives home and 900 gives about.
C7_DetectActiveSection ==
  /\ spyPhase # "boot" /\ pageYOffset < 80 => activeSectionId = SECTION_IDS[1]
  /\ spyPhase # "boot" /\ pageYOffset >= 80 /\ Qualifying # {}
       => \E i \in Qualifying :
            /\ activeSectionId = SECTION_IDS[i]
            /\ \A j \in Qualifying : j <= i
  /\ detectActiveSection(ExampleLayout, 40, 1000) = "home"
  /\ detectActiveSection(ExampleLayout, 900, 1000) = "about"

C7_Witness ==
  /\ spyPhase = "ready"
  /\ sectionEls = ExampleLayout
  /\ innerHeight = 1000
  /\ pageYOffset = 900
  /\ activeSectionId = "about"

\* C8 as stated: after the first evaluation exactly one link is active, and
\* no link is active only before it.
C8_ExactlyOneLinkActive ==
  /\ spyPhase # "boot" => Cardinality(ActiveLinks) = 1
  /\ ActiveLinks = {} => spyPhase = "boot"

\* C8 as amended: after the first evaluation exactly one section is marked
\* active - the active links all carry the section identifier selected last,
\* every link that carries it is active, and at most one link is active per
\* copy of the navigation.
C8_OneSectionActive ==
  spyPhase # "boot" =>
    /\ \A i \in ActiveLinks : navLinks[i] = activeSectionId
    /\ \A i \in 1..Len(navLinks) : navLinks[i] = activeSectionId => i \in ActiveLinks
    /\ \A i, j \in ActiveLinks : navLinks[i] = navLinks[j]
    /\ navLinks = SECTION_IDS => Cardinality(ActiveLinks) = 1

C8_Witness ==
  /\ spyPhase = "loaded"
  /\ lastEvent = "frame"
  /\ Len(navLinks) > Len(SECTION_IDS)
  /\ activeSectionId = "projects"
  /\ Cardinality(ActiveLinks) = 2

\* C9: the panel is open iff the trigger's expanded attribute is true iff
\* the trigger's label is the close label, after any sequence of trigger
\* clicks, Escape presses and link clicks.
C9_MenuStateAgrees ==
  /\ panelOpen <=> ariaExpanded = "true"
  /\ panelOpen <=> ariaLabel = LabelClose

C9_Witness ==
  /\ panelOpen
  /\ ariaExpanded = "true"
  /\ ariaLabel = LabelClose
  /\ lastEvent = "toggle"

\* C10: Escape while the menu is open closes it and moves focus to the
\* trigger button; Escape while it is closed changes neither the menu nor
\* the focus.
C10_EscapeCloses ==
  [][lastEvent' = "escape"
       => IF panelOpen
          THEN ~panelOpen' /\ ariaExpanded' = "false" /\ focus' = "hamburger"
          ELSE UNCHANGED <<panelOpen, panelAriaHidden, ariaExpanded, ariaLabel, focus>>]_vars

C10_Witness ==
  /\ lastEvent = "escape"
  /\ ~panelOpen
  /\ panelAriaHidden = "true"
  /\ focus = "hamburger"

\* The class and attributes of the menu, and the keyboard focus
menuAttrs == <<panelOpen, panelAriaHidden, ariaExpanded, ariaLabel>>

\* C12: closeMobileMenu on a closed menu changes nothing and close after
\* close equals close; closeMobileMenu and openMobileMenu change nothing
\* when the panel or the trigger is absent.
C12_CloseIsSafe ==
  /\ [](MenuAfterClose(MenuAfterClose(MenuState)) = MenuAfterClose(MenuState))
  /\ [](~panelOpen => MenuAfterClose(MenuState) = MenuState)
  /\ [](~mobileMenuPanel \/ ~hamburgerButton
          => MenuAfterClose(MenuState) = MenuState /\ MenuAfterOpen(MenuState) = MenuState)
  /\ [][lastEvent' = "click" /\ defaultPrevented'
          /\ (~panelOpen \/ ~mobileMenuPanel \/ ~hamburgerButton)
          => UNCHANGED menuAttrs]_vars

C12_Witness ==
  /\ lastEvent = "click"
  /\ defaultPrevented
  /\ mobileMenuPanel
  /\ ~hamburgerButton
  /\ ~panelOpen

\* The position in the chain of the nearest enclosing link whose href is a
\* fragment reference, as a set (empty when there is none)
NearestFragmentLink(chain) ==
  {i \in 1..Len(chain) :
     /\ chain[i].tag = "a" /\ chain[i].href # <<>> /\ chain[i].href[1] = "#"
     /\ \A j \in 1..(i - 1) :
          ~(chain[j].tag = "a" /\ chain[j].href # <<>> /\ chain[j].href[1] = "#")}

\* The click is one the router ignores: no fragment link encloses the
\* target, or the link is the bare "#", or its fragment names no element.
IgnoredClick(chain) ==
  \A i \in NearestFragmentLink(chain) :
    \/ Len(chain[i].href) = 1
    \/ \A id \in DOMAIN sectionEls : chain[i].href # <<"#", id>>

\* C14: an ignored click does not suppress the default behaviour, issues no
\* scroll and leaves the mobile menu as it was.
C14_IgnoredClickFallsThrough ==
  [][lastEvent' = "click" /\ IgnoredClick(clickTarget')
       => /\ ~defaultPrevented'
          /\ scrollToCalls' = <<>>
          /\ UNCHANGED <<menuAttrs, focus>>]_vars

C14_Witness ==
  /\ lastEvent = "click"
  /\ clickTarget = <<Anchor(<<"#", "nosuch">>)>>
  /\ ~defaultPrevented
  /\ scrollToCalls = <<>>
  /\ panelOpen

\* C15: a click on, or inside, a link whose fragment names an element
\* suppresses the default navigation, issues one scroll to the section top
\* minus the navigation height minus 8, and closes the menu whatever its
\* state (nothing changes when the menu is absent).
C15_HandledClickScrollsAndCloses ==
  [][lastEvent' = "click" /\ ~IgnoredClick(clickTarget')
       => /\ defaultPrevented'
          /\ \E i \in NearestFragmentLink(clickTarget') :
               scrollToCalls' = <<sectionEls[clickTarget'[i].href[2]] - navHeight - 8>>
          /\ IF mobileMenuPanel /\ hamburgerButton
             THEN /\ ~panelOpen' /\ panelAriaHidden' = "true"
                  /\ ariaExpanded' = "false" /\ ariaLabel' = LabelOpen
             ELSE UNCHANGED menuAttrs]_vars

C15_Witness ==
  /\ lastEvent = "click"
  /\ clickTarget = <<Other("svg"), Anchor(<<"#", "projects">>), Other("nav")>>
  /\ defaultPrevented
  /\ navHeight = 64
  /\ scrollToCalls = <<1528>>
  /\ mobileMenuPanel /\ hamburgerButton /\ ~panelOpen

\* C13: however many scroll events arrive between two frames, at most one
\* evaluation is pending; a scroll event that finds one pending requests no
\* other, and the frame callback that ends the burst evaluates once and
\* leaves nothing pending.
C13_OnePendingEvaluation ==
  /\ [](rafQueue <= 1 /\ (rafScheduled <=> rafQueue = 1))
  /\ [](scrollBurst >= 1 => rafQueue = 1)
  /\ [][lastEvent' = "scroll" /\ scrollBurst >= 1 => rafQueue' = rafQueue]_vars
  /\ [][lastEvent' = "frame"
          => /\ rafQueue' = 0 /\ ~rafScheduled'
             /\ activeSectionId' = detectActiveSection(sectionEls, pageYOffset, innerHeight)]_vars

C13_Witness ==
  /\ lastEvent = "scroll"
  /\ scrollBurst = MaxBurst
  /\ rafQueue = 1

\* C18: after an evaluation selected a section, a link carries the active
\* class exactly when its data-section is that section, and every link
\* carries the class exactly when it carries aria-current.
C18_ClassAndAriaAgree ==
  /\ spyPhase # "boot"
       => \A i \in 1..Len(navLinks) : linkActive[i] <=> navLinks[i] = activeSectionId
  /\ \A i \in 1..Len(navLinks) : linkActive[i] <=> linkAriaCurrent[i]

C18_Witness ==
  /\ lastEvent = "frame"
  /\ activeSectionId = "projects"
  /\ \E i \in 1..Len(navLinks) : linkActive[i] /\ linkAriaCurrent[i]
  /\ \E i \in 1..Len(navLinks) : ~linkActive[i] /\ ~linkAriaCurrent[i]

\* C17: a valid submission with the endpoint configured issues exactly one
\* request; the settling of a request, whatever the reply, issues none; no
\* step other than a submission issues a request.
C17_NoAutomaticRetry ==
  /\ [][lastEvent' = "submit" /\ ~SomeFieldInvalid /\ formspreeFormId # UNSET_FORM_ID
          => fetchCalls' = fetchCalls + 1 /\ Len(inflight') = Len(inflight) + 1]_vars
  /\ [][lastEvent' = "settled"
          => fetchCalls' = fetchCalls /\ Len(inflight') = Len(inflight) - 1]_vars
  /\ [][lastEvent' # "submit"
          => fetchCalls' = fetchCalls /\ Len(inflight') <= Len(inflight)]_vars

C17_Witness ==
  /\ lastEvent = "settled"
  /\ lastReply.kind = "transportFailure"
  /\ fetchCalls = 1
  /\ inflight = <<>>
  /\ statusText = MsgNetwork

\* The field fails its validation rule in the submission being handled.
FieldIsInvalid(f) ==
  IF f = "email" THEN ~WellFormedEmail(emailValue') ELSE IsBlank(fields[f])

\* C19: a submission with an invalid field puts the error indicator, with
\* its removal timeout, on every invalid field in that one pass, leaves the
\* valid fields as they were, and sets the aggregate error status.
C19_EveryInvalidFieldFlagged ==
  [][lastEvent' = "submit" /\ SomeFieldInvalid
       => /\ \A f \in FieldNames :
               IF FieldIsInvalid(f)
               THEN /\ f \in fieldError'
                    /\ Len(errorTimers'[f]) = Len(errorTimers[f]) + 1
               ELSE /\ f \in fieldError' <=> f \in fieldError
                    /\ errorTimers'[f] = errorTimers[f]
          /\ statusText' = MsgInvalid
          /\ statusClass' = StatusClassOf("error")]_vars

C19_Witness ==
  /\ lastEvent = "submit"
  /\ ~IsBlank(fields["name"])
  /\ WellFormedEmail(emailValue)
  /\ IsBlank(fields["subject"])
  /\ IsBlank(fields["message"])
  /\ fieldError = {"subject", "message"}
  /\ statusText = MsgInvalid

\* C20: the indicator a submission put on a field stays on it until the
\* timeout of that submission is due, whatever other submissions did, and
\* is off once no timeout of the field is pending.
C20_IndicatorLastsFullDuration ==
  \A f \in FieldNames :
    /\ (\E i \in 1..Len(errorTimers[f]) : errorTimers[f][i] > 0) => f \in fieldError
    /\ errorTimers[f] = <<>> => f \notin fieldError

\* Every bar has the width fillBars gives it.
AllBarsFilled == \A i \in 1..Len(bars) : barWidth[i] = <<bars[i], "%">>

\* C11: the revealed flag of an element and the animated flag of the bars
\* never go back to false; an element that fired is no longer watched; a
\* batch that repeats an intersecting entry, and any later move of the
\* element out of and into view, changes nothing more and starts no second
\* run of the bar fill.
C11_FiresOnce ==
  /\ [][\A e \in RevealEls : isRevealed[e] => isRevealed'[e]]_vars
  /\ [][hasAnimated => hasAnimated']_vars
  /\ [](ioReady => \A e \in RevealEls : isRevealed[e] => e \notin revealObserved)
  /\ [](hasAnimated => ~skillsObserved)
  /\ [](fillRuns <= 1)
  /\ [][\A e \in RevealEls :
          isRevealed[e] /\ e \notin revealObserved
            => /\ e \notin revealObserved'
               /\ \A i \in 1..Len(revealQueue') : revealQueue'[i].target = e
                    => \E j \in 1..Len(revealQueue) : revealQueue[j] = revealQueue'[i]]_vars
  /\ [][hasAnimated
          => /\ fillRuns' = fillRuns
             /\ Len(barTimers') <= Len(barTimers)
             /\ Len(skillsQueue') <= Len(skillsQueue)]_vars

C11_Witness ==
  /\ lastEvent = "skillsIntersection"
  /\ skillsInView
  /\ hasAnimated
  /\ fillRuns = 1
  /\ ~skillsObserved
  /\ skillsQueue = <<>>
  /\ Len(bars) = MaxBars
  /\ AllBarsFilled
  /\ \E e \in RevealEls : isRevealed[e] /\ e \notin revealObserved /\ ~inView[e]

\* C16: without the intersection observer the reveal unit marks every
\* element revealed when it runs, the skill unit sets the fill timeout of
\* every bar when it runs, and every bar ends up filled although no
\* intersection was ever reported.
C16_DegradesGracefully ==
  /\ [][lastEvent' = "revealStartup" /\ ~IntersectionObserverAvailable
          => \A e \in RevealEls : isRevealed'[e]]_vars
  /\ [][lastEvent' = "skillsStartup" /\ ~IntersectionObserverAvailable
          => \A i \in 1..Len(bars) : \E k \in 1..Len(barTimers') :
               barTimers'[k].bar = i]_vars
  /\ [](~IntersectionObserverAvailable => revealQueue = <<>> /\ skillsQueue = <<>>)
  /\ (~IntersectionObserverAvailable ~> (AllBarsFilled /\ \A e \in RevealEls : isRevealed[e]))

C16_Witness ==
  /\ ~IntersectionObserverAvailable
  /\ animPhase = "ready"
  /\ Len(bars) = MaxBars
  /\ AllBarsFilled
  /\ \A e \in RevealEls : isRevealed[e] /\ ~inView[e]
  /\ ~skillsInView

\* C21: once the first intersecting entry of the skills section started
\* the fill, a bar changes width only to its own data-fill-width, the bar of
\* index i (counted from 0) exactly 80 * i after the trigger and after every
\* bar of lower index, and every bar is eventually filled.
C21_BarsFillInOrder ==
  /\ [][lastEvent' = "skillsCallback" /\ ~hasAnimated /\ hasAnimated'
          => fillClock' = 0 /\ Len(barTimers') = Len(bars)]_vars
  /\ [][\A i \in 1..Len(bars) :
          barWidth'[i] # barWidth[i]
            => /\ barWidth'[i] = <<bars[i], "%">>
               /\ fillClock = 80 * (i - 1)
               /\ \A j \in 1..(i - 1) : barWidth[j] = <<bars[j], "%">>]_vars
  /\ (hasAnimated ~> AllBarsFilled)

C21_Witness ==
  /\ IntersectionObserverAvailable
  /\ hasAnimated
  /\ Len(bars) = MaxBars
  /\ AllBarsFilled
  /\ fillClock = 80 * (MaxBars - 1)
  /\ lastEvent = "barTimeout"

\* C22: after a burst of scroll events a frame callback eventually runs;
\* when it has run, the active section is the one detected at the scroll
\* position of the last scroll event and nothing is pending; a scroll event
\* that finds nothing pending schedules a new evaluation.
C22_FinalUpdateKept ==
  /\ (scrollBurst >= 1
        ~> /\ lastEvent = "frame"
           /\ scrollBurst = 0
           /\ ~rafScheduled /\ rafQueue = 0
           /\ activeSectionId = detectActiveSection(sectionEls, pageYOffset, innerHeight))
  /\ [][lastEvent' = "frame" => pageYOffset' = pageYOffset]_vars
  /\ [][lastEvent' = "scroll" /\ ~rafScheduled => rafScheduled' /\ rafQueue' = 1]_vars

C22_Witness ==
  /\ lastEvent = "scroll"
  /\ scrollBurst = 1
  /\ rafScheduled /\ rafQueue = 1
  /\ activeSectionId = "projects"
  /\ pageYOffset = 0

\* C23: at most one request is in flight; a submission that arrives while
\* a request is unresolved issues no request; when a request settles and
\* re-enables the submit control no other request is in flight.
C23_OneRequestInFlight ==
  /\ [](Len(inflight) <= 1)
  /\ [][lastEvent' = "submit" /\ inflight # <<>>
          => fetchCalls' = fetchCalls /\ inflight' = inflight]_vars
  /\ [][lastEvent' = "settled" /\ ~submitDisabled' => inflight' = <<>>]_vars

\* C24: a valid submission on the mailto path leaves the four field values,
\* the submit control, the mobile menu, the focus and the scroll position as
\* they were; the click on its anchor is ignored by the smooth-scroll
\* listener (default not suppressed, no scroll); the anchor is out of the
\* document afterwards; the status is the mail-client success message.
C24_MailtoLeavesPageAlone ==
  [][lastEvent' = "submit" /\ ~SomeFieldInvalid /\ formspreeFormId = UNSET_FORM_ID
       => /\ fields' = fields
          /\ submitDisabled' = submitDisabled /\ submitLabel' = submitLabel
          /\ UNCHANGED <<menuAttrs, focus, hamburgerButton, mobileMenuPanel>>
          /\ UNCHANGED <<spyVars, animVars>>
          /\ IgnoredClick(clickTarget') /\ ~defaultPrevented' /\ scrollToCalls' = <<>>
          /\ mailtoAnchors' = 0
          /\ UNCHANGED <<fieldError, errorTimers, inflight, fetchCalls>>
          /\ statusText' = MsgMailto /\ statusClass' = StatusClassOf("success")]_vars

C24_Witness ==
  /\ lastEvent = "submit"
  /\ formIsValid
  /\ mailtoClicks = 1
  /\ mailtoAnchors = 0
  /\ clickTarget = MailtoAnchor(mailtoHref)
  /\ panelOpen
  /\ statusText = MsgMailto
  /\ fields["subject"] = <<"a", " ", "a">>

====
